---- MODULE Spec2Model ----
(***************************************************************************)
(* A model of p2p/shim.go: the ReactorShim that bridges the legacy         *)
(* Reactor interface (Receive, AddPeer, RemovePeer, OnStart, OnStop,       *)
(* GetChannels) to the channel based p2p interface.                        *)
(*                                                                         *)
(* Go channels of the shim are unbuffered (make(chan T)): a send in a      *)
(* select with a default case succeeds exactly when a receiver is blocked  *)
(* on the channel at that instant, and panics when the channel is closed.  *)
(* A panic ends the goroutine that raised it (pc "panic"); the model lets  *)
(* the other goroutines go on, so every safety property also holds of the  *)
(* runs that end at the abort.                                             *)
(***************************************************************************)
EXTENDS Integers, Sequences, FiniteSets, TLC

\* Bounds of the model: the number of legacy calls (Receive, AddPeer,
\* RemovePeer) made in a run and the number of Envelopes the embedding
\* reactor places on outbound endpoints.
MaxCalls == 2
MaxLiveCalls == 1
MaxEnvelopes == 2
MaxDescriptors == 2

\* Legacy peer ID strings: two that are hex and one that is not.
PeerStrs == {"aa", "bb", "zz"}

\* The descriptors handed to NewShim: (message type, channel descriptor).
Descriptors ==
  << [MsgType |-> "A", Descriptor |-> [ID |-> 32, Priority |-> 5]],
     [MsgType |-> "B", Descriptor |-> [ID |-> 33, Priority |-> 6]] >>

\* The descriptors NewShim is handed in the runs that vary them: those
\* above and one more that shares the ID of the first.
DescriptorPool ==
  { Descriptors[1], Descriptors[2],
    [MsgType |-> "B", Descriptor |-> [ID |-> 32, Priority |-> 7]] }

DescriptorLists == UNION { [1..n -> DescriptorPool] : n \in 0..MaxDescriptors }

\* Channel IDs a peer may name in Receive: the configured ones and one more.
ChIDs == {32, 33, 64}

\* Wire bytes handed to Receive: well-formed ones and malformed ones.
MsgBytesSet == { <<8, 5>>, <<8, 6>>, <<5>> }

NoMsg == [type |-> "nil", val |-> 0]

VARIABLES
  descriptors,   \* the descriptors NewShim was handed
  Channels,      \* rs.Channels: ChannelID -> ChannelShim
  listed,        \* the result of the last call of GetChannels
  msgVal,        \* rs.MessageValidator # nil
  started,       \* BaseService.started
  stopped,       \* BaseService.stopped
  startPc,       \* the goroutine calling Start: "idle", "onstart", "done"
  stopPc,        \* the goroutine calling Stop: "idle", "onstop", "done"
  visited,       \* channels OnStop's loop has called Close on
  closeErrs,     \* channels whose Close returned an error
  outClosed,     \* per channel: the outbound endpoint is closed
  puClosed,      \* PeerUpdateCh is closed
  puCloses,      \* number of close(rs.PeerUpdateCh) executed
  proxy,         \* per channel: the proxy goroutine's state
  spawned,       \* per channel: number of proxy goroutines started
  peers,         \* rs.Switch.peers: the connected legacy peer IDs
  sent,          \* log of Peer.Send calls
  taken,         \* per channel: the Envelopes taken from the outbound endpoint
  calls,         \* the legacy calls, in invocation order, and their progress
  valLog,        \* log of the validator's invocations
  reading,       \* the embedding reactor reads its channels (fixed in a run)
  budget,        \* the number of legacy calls made in a run (fixed in a run)
  inbox,         \* per channel: the Envelopes received from InCh
  updates        \* the PeerUpdates received from PeerUpdateCh

vars == << descriptors, Channels, listed, msgVal, started, stopped, startPc, stopPc, visited,
           closeErrs, outClosed, puClosed, puCloses, proxy, spawned, peers,
           sent, taken, calls, valLog, reading, budget, inbox, updates >>

lifeVars == << started, stopped, startPc, stopPc, visited, closeErrs,
               outClosed, puClosed, puCloses >>
proxyVars == << proxy, spawned, sent, taken >>
callVars == << calls, valLog, reading, budget, inbox, updates >>

----------------------------------------------------------------------------
(* External services, modelled by what they do.                            *)

\* hex.DecodeString on the two-character strings of PeerStrs.
HexByte(s) ==
  CASE s = "aa" -> 170
    [] s = "bb" -> 187
    [] OTHER -> -1

\* PeerIDFromString: the bytes the hex string denotes, or an error.
PeerIDFromString(s) ==
  IF HexByte(s) >= 0 THEN [ok |-> TRUE, id |-> << HexByte(s) >>]
                     ELSE [ok |-> FALSE, id |-> << >>]

\* PeerID.String: lower-case hex of the bytes.
PeerIDString(id) ==
  CASE id = << 170 >> -> "aa"
    [] id = << 187 >> -> "bb"
    [] OTHER -> "??"

PeerIDs == { PeerIDFromString(s).id : s \in { x \in PeerStrs : PeerIDFromString(x).ok } }

\* proto.Unmarshal into a fresh message of the channel's type: a field tag
\* followed by the value.
Unmarshal(bz, msgType) ==
  IF Len(bz) = 2 /\ bz[1] = 8
    THEN [ok |-> TRUE, msg |-> [type |-> msgType, val |-> bz[2]]]
    ELSE [ok |-> FALSE, msg |-> NoMsg]

\* proto.Marshal: fails on a nil message.
Marshal(msg) ==
  IF msg = NoMsg THEN [ok |-> FALSE, bz |-> << >>]
                 ELSE [ok |-> TRUE, bz |-> << 8, msg.val >>]

\* The validator's policy (external): it rejects the message whose value is 6.
ValidatorAccepts(chID, src, msgBytes, msg) == msg.val # 6

\* BaseService.IsRunning
IsRunning == started /\ ~stopped

----------------------------------------------------------------------------
(* Construction.                                                           *)

RECURSIVE NewShimChannels(_)
\* The loop of NewShim: one ChannelShim per descriptor, keyed by its ID; a
\* later descriptor with the same ID replaces an earlier one.
NewShimChannels(list) ==
  IF list = << >> THEN << >>
  ELSE LET n == Len(list)
           cds == list[n]
           rest == NewShimChannels(SubSeq(list, 1, n - 1))
           shim == [Descriptor |-> cds.Descriptor, messageType |-> cds.MsgType]
       IN [c \in (DOMAIN rest) \cup {cds.Descriptor.ID} |->
             IF c = cds.Descriptor.ID THEN shim ELSE rest[c]]

ChanIDs == DOMAIN Channels

NotListed == [called |-> FALSE, ran |-> FALSE, ds |-> << >>]

\* The state NewShim returns when handed the descriptors ds, in a run of at
\* most b legacy calls whose embedding reactor reads its channels or not,
\* as R allows.
InitOf(ds, b, R) ==
  /\ descriptors = ds
  /\ Channels = NewShimChannels(ds)
  /\ listed = NotListed
  /\ msgVal \in BOOLEAN
  /\ started = FALSE
  /\ stopped = FALSE
  /\ startPc = "idle"
  /\ stopPc = "idle"
  /\ visited = {}
  /\ closeErrs = {}
  /\ outClosed = [c \in DOMAIN NewShimChannels(ds) |-> FALSE]
  /\ puClosed = FALSE
  /\ puCloses = 0
  /\ proxy = [c \in DOMAIN NewShimChannels(ds) |->
                [pc |-> "none", chID |-> 0, outCh |-> 0, env |-> 0,
                 src |-> "", bz |-> << >>]]
  /\ spawned = [c \in DOMAIN NewShimChannels(ds) |-> 0]
  /\ peers = {}
  /\ sent = << >>
  /\ taken = [c \in DOMAIN NewShimChannels(ds) |-> << >>]
  /\ calls = << >>
  /\ valLog = << >>
  /\ reading \in R
  /\ budget = b
  /\ inbox = [c \in DOMAIN NewShimChannels(ds) |-> << >>]
  /\ updates = << >>

InitWith(b, R) == InitOf(Descriptors, b, R)

Init == InitWith(MaxCalls, {TRUE})

\* The runs in which NewShim is handed any list of descriptors.
InitAny == \E ds \in DescriptorLists : InitOf(ds, MaxCalls, {TRUE})

\* The runs in which liveness is checked: one legacy call, and also the
\* embedding reactor that never reads.
InitLive == InitWith(MaxLiveCalls, BOOLEAN)

----------------------------------------------------------------------------
(* Lifecycle: BaseService.Start and Stop call the hooks OnStart and OnStop *)
(* at most once each; Stop makes IsRunning false before OnStop runs.       *)

\* BaseService.Start up to the call of OnStart.
StartBegin ==
  /\ ~started
  /\ startPc = "idle"
  /\ started' = TRUE
  /\ startPc' = "onstart"
  /\ UNCHANGED << Channels, descriptors, listed, msgVal, stopped, stopPc, visited, closeErrs,
                  outClosed, puClosed, puCloses, peers >>
  /\ UNCHANGED proxyVars
  /\ UNCHANGED callVars

\* (A defective variant of ProxyArgs.)  Every goroutine reads the channel
\* ID through the loop variable, which holds the last entry of the map by
\* the time it runs.
ProxyArgsLoopVar(c) ==
  [chID |-> Channels[CHOOSE x \in ChanIDs : \A y \in ChanIDs : y <= x].Descriptor.ID,
   outCh |-> c]

\* What the goroutine started for map entry c closes over: the arguments
\* c.Descriptor.ID and c.OutCh, passed by value.
ProxyArgs(c) == [chID |-> Channels[c].Descriptor.ID, outCh |-> c]

\* (A defective variant of proxyPeerEnvelopes.)  Two goroutines are started
\* for every entry of rs.Channels.
proxyPeerEnvelopesTwice ==
  /\ proxy' = [c \in ChanIDs |->
                 [pc |-> "wait", chID |-> ProxyArgs(c).chID,
                  outCh |-> ProxyArgs(c).outCh, env |-> 0, src |-> "", bz |-> << >>]]
  /\ spawned' = [c \in ChanIDs |-> spawned[c] + 2]

\* proxyPeerEnvelopes: one goroutine per entry of rs.Channels.
proxyPeerEnvelopes ==
  /\ proxy' = [c \in ChanIDs |->
                 [pc |-> "wait", chID |-> ProxyArgs(c).chID,
                  outCh |-> ProxyArgs(c).outCh, env |-> 0, src |-> "", bz |-> << >>]]
  /\ spawned' = [c \in ChanIDs |-> spawned[c] + 1]

\* OnStart: starts the proxies when the reactor is running; returns nil.
OnStart ==
  /\ startPc = "onstart"
  /\ IF IsRunning THEN proxyPeerEnvelopes
                  ELSE UNCHANGED << proxy, spawned >>
  /\ startPc' = "done"
  /\ UNCHANGED << Channels, descriptors, listed, msgVal, started, stopped, stopPc, visited,
                  closeErrs, outClosed, puClosed, puCloses, peers, sent,
                  taken >>
  /\ UNCHANGED callVars

\* BaseService.Stop up to the call of OnStop.
StopBegin ==
  /\ started
  /\ ~stopped
  /\ stopPc = "idle"
  /\ stopped' = TRUE
  /\ stopPc' = "onstop"
  /\ UNCHANGED << Channels, descriptors, listed, msgVal, started, startPc, visited, closeErrs,
                  outClosed, puClosed, puCloses, peers >>
  /\ UNCHANGED proxyVars
  /\ UNCHANGED callVars

\* (A defective variant of AfterClose.)  OnStop returns at the first Close
\* that fails.
AfterCloseReturnOnError(err) == IF err THEN "done" ELSE "onstop"

\* Where OnStop goes after a Close returned err: the error is logged and the
\* loop goes on.
AfterClose(err) == "onstop"

\* (A defective variant of ChannelsAfterClose.)  OnStop deletes the entry of
\* the channel it has closed.
ChannelsAfterCloseDeleted(c) == [x \in ChanIDs \ {c} |-> Channels[x]]

\* rs.Channels after an iteration of OnStop's loop: the loop reads the map
\* and writes nothing to it.
ChannelsAfterClose(c) == Channels

\* One iteration of OnStop's loop: cs.Channel.Close() on a channel not yet
\* visited (the map's iteration order is arbitrary).  Channel.Close closes
\* the outbound endpoint and may report an error.
OnStopClose(c, err) ==
  /\ stopPc = "onstop"
  /\ c \in ChanIDs \ visited
  /\ visited' = visited \cup {c}
  /\ closeErrs' = IF err THEN closeErrs \cup {c} ELSE closeErrs
  /\ outClosed' = [outClosed EXCEPT ![c] = TRUE]
  /\ stopPc' = AfterClose(err)
  /\ Channels' = ChannelsAfterClose(c)
  /\ UNCHANGED << descriptors, listed, msgVal, started, stopped, startPc, puClosed,
                  puCloses, peers >>
  /\ UNCHANGED proxyVars
  /\ UNCHANGED callVars

\* (A defective variant of LoopOver.)  PeerUpdateCh is closed before the
\* loop over the channels is over.
LoopOverEarly == TRUE

\* OnStop leaves its loop when every entry of rs.Channels has been visited.
LoopOver == visited = ChanIDs

\* close(rs.PeerUpdateCh), the last statement of OnStop; closing a closed
\* channel panics.
OnStopClosePeerUpdateCh ==
  /\ stopPc = "onstop"
  /\ LoopOver
  /\ puClosed' = TRUE
  /\ puCloses' = puCloses + 1
  /\ stopPc' = IF puClosed THEN "panic" ELSE "done"
  /\ UNCHANGED << Channels, descriptors, listed, msgVal, started, stopped, startPc, visited,
                  closeErrs, outClosed, peers >>
  /\ UNCHANGED proxyVars
  /\ UNCHANGED callVars

\* The orders in which a range over rs.Channels may visit its entries.
MapOrders ==
  { o \in [1..Cardinality(ChanIDs) -> ChanIDs] :
      \A i, k \in DOMAIN o : i # k => o[i] # o[k] }

NilDescriptor == [ID |-> 0, Priority |-> 0]

\* (A defective variant of Listing.)  The index i is not incremented: every
\* descriptor is written to the first slot.
ListingNoIncrement(order) ==
  [i \in 1..Len(order) |->
     IF i = 1 THEN Channels[order[Len(order)]].Descriptor ELSE NilDescriptor]

\* The slice GetChannels builds: len(rs.Channels) slots, slot i holding the
\* descriptor of the i-th entry the range visits.
Listing(order) == [i \in 1..Len(order) |-> Channels[order[i]].Descriptor]

\* GetChannels, at any time; the range visits the map in some order.
GetChannels(order) ==
  /\ listed' = [called |-> TRUE, ran |-> IsRunning, ds |-> Listing(order)]
  /\ UNCHANGED << Channels, descriptors, msgVal, peers >>
  /\ UNCHANGED lifeVars
  /\ UNCHANGED proxyVars
  /\ UNCHANGED callVars

----------------------------------------------------------------------------
(* The outbound proxy goroutines.                                          *)

\* Envelopes the embedding reactor may place on an outbound endpoint.
OutEnvelopes ==
  [To : PeerIDs, Message : {[type |-> "A", val |-> 5], NoMsg}]

\* The number of Envelopes taken so far, over all channels.
NumTaken == LET S == { << c, k >> \in ChanIDs \X (1..MaxEnvelopes + 1) :
                         k <= Len(taken[c]) }
            IN Cardinality(S)

\* (A defective variant of Receiving.)  The outbound endpoint has a buffer:
\* a producer hands the next Envelope over while the Send of the previous
\* one is under way.
ReceivingOrSending(pc) == pc \in {"wait", "send"}

\* The proxy is blocked at the head of its range loop, receiving from
\* outCh; outCh is unbuffered, so a producer's send completes only then.
Receiving(pc) == pc = "wait"

\* for e := range outCh: the proxy j receives the Envelope e that a producer
\* hands over on the unbuffered outCh it listens on.
ProxyTake(j, e) ==
  /\ Receiving(proxy[j].pc)
  /\ ~outClosed[proxy[j].outCh]
  /\ NumTaken < MaxEnvelopes
  /\ taken' = [taken EXCEPT ![proxy[j].outCh] =
                 Append(@, [e |-> e, task |-> j, found |-> "?"])]
  /\ proxy' = [proxy EXCEPT ![j].pc = "resolve",
                            ![j].env = Len(taken[proxy[j].outCh]) + 1]
  /\ UNCHANGED << Channels, descriptors, listed, msgVal, peers, sent, spawned >>
  /\ UNCHANGED lifeVars
  /\ UNCHANGED callVars

\* (A defective variant of RangeEnds.)  The loop does not notice that the
\* endpoint is closed.
RangeNeverEnds(closed) == FALSE

\* The range loop ends when outCh is closed (and, being unbuffered, empty).
RangeEnds(closed) == closed

ProxyExit(j) ==
  /\ proxy[j].pc = "wait"
  /\ RangeEnds(outClosed[proxy[j].outCh])
  /\ proxy' = [proxy EXCEPT ![j].pc = "exited"]
  /\ UNCHANGED << Channels, descriptors, listed, msgVal, peers, sent, taken, spawned >>
  /\ UNCHANGED lifeVars
  /\ UNCHANGED callVars

\* (A defective variant of AfterResolve.)  The nil peer and the Marshal
\* error are not looked at: the proxy goes on to Send.
AfterResolveUnchecked(found, encoded) == "send"

\* Where the proxy goes after the lookup and the encoding: it panics if
\* src == nil or err != nil, and goes on to Send otherwise.
AfterResolve(found, encoded) == IF found /\ encoded THEN "send" ELSE "panic"

\* rs.Switch.peers.Get(ID(e.To.String())) and proto.Marshal(e.Message):
\* panic when the peer is not found or the message does not encode.
ProxyResolve(j) ==
  LET o == proxy[j].outCh
      k == proxy[j].env
      e == taken[o][k].e
      id == PeerIDString(e.To)
      m == Marshal(e.Message)
  IN /\ proxy[j].pc = "resolve"
     /\ taken' = [taken EXCEPT ![o][k].found =
                    IF id \in peers THEN "yes" ELSE "no"]
     /\ proxy' = [proxy EXCEPT ![j].pc = AfterResolve(id \in peers, m.ok),
                               ![j].src = id,
                               ![j].bz = m.bz]
     /\ UNCHANGED << Channels, descriptors, listed, msgVal, peers, sent, spawned >>
     /\ UNCHANGED lifeVars
     /\ UNCHANGED callVars

\* _ = src.Send(chID, bz): the call and its return; the result is dropped.
ProxySend(j) ==
  /\ proxy[j].pc = "send"
  /\ sent' = Append(sent, [peer |-> proxy[j].src, chID |-> proxy[j].chID,
                           bz |-> proxy[j].bz, task |-> j,
                           outCh |-> proxy[j].outCh, env |-> proxy[j].env,
                           closed |-> outClosed[proxy[j].outCh]])
  /\ proxy' = [proxy EXCEPT ![j].pc = "wait", ![j].env = 0, ![j].src = "",
                            ![j].bz = << >>]
  /\ UNCHANGED << Channels, descriptors, listed, msgVal, peers, taken, spawned >>
  /\ UNCHANGED lifeVars
  /\ UNCHANGED callVars

\* The Switch adds a peer to, or removes it from, rs.Switch.peers.
PeerConnects(p) ==
  /\ p \notin peers
  /\ peers' = peers \cup {p}
  /\ UNCHANGED << Channels, descriptors, listed, msgVal >>
  /\ UNCHANGED lifeVars
  /\ UNCHANGED proxyVars
  /\ UNCHANGED callVars

PeerDisconnects(p) ==
  /\ p \in peers
  /\ peers' = peers \ {p}
  /\ UNCHANGED << Channels, descriptors, listed, msgVal >>
  /\ UNCHANGED lifeVars
  /\ UNCHANGED proxyVars
  /\ UNCHANGED callVars

----------------------------------------------------------------------------
(* The legacy calls: Receive, AddPeer, RemovePeer.                         *)

\* The calls that have returned or panicked.
Finished == { n \in 1..Len(calls) : calls[n].st # "active" }

NoEnvelope == [From |-> << >>, Message |-> NoMsg]

\* The record of a call at its invocation.  The calls are made by any
\* number of goroutines of the legacy transport: a call may be invoked while
\* others are in progress.
NewCall(op, chID, src, msgBytes) ==
  [op |-> op, chID |-> chID, src |-> src, bytes |-> msgBytes,
   after |-> Finished, st |-> "active", ran |-> IsRunning, att |-> 0,
   rdy |-> FALSE, env |-> NoEnvelope]

\* (A defective variant of DecodeFailure.)  The hook is handed the channel
\* ID and the peer, but not the bytes.
DecodeFailureNoBytes(chID, src, msgBytes) ==
  [next |-> "return",
   vcalls |-> IF msgVal
                THEN << [m |-> "OnUnmarshalFailure", chID |-> chID,
                         src |-> src, bytes |-> << >>] >>
                ELSE << >>,
   env |-> NoEnvelope]

\* Receive, when proto.Unmarshal fails: the validator, if any, is told, and
\* Receive returns.
DecodeFailure(chID, src, msgBytes) ==
  [next |-> "return",
   vcalls |-> IF msgVal
                THEN << [m |-> "OnUnmarshalFailure", chID |-> chID,
                         src |-> src, bytes |-> msgBytes] >>
                ELSE << >>,
   env |-> NoEnvelope]

\* (A defective variant of InboundEnvelope.)  The Envelope leaves Receive
\* without its sender.
InboundEnvelopeNoFrom(peerID, msg) == [From |-> << >>, Message |-> msg]

\* The Envelope Receive sends on InCh.
InboundEnvelope(peerID, msg) == [From |-> peerID, Message |-> msg]

\* (A defective variant of Rejects.)  The rejection is logged and Receive
\* goes on.
RejectsIgnored(chID, src, msgBytes, msg) == FALSE

\* Receive drops a decoded message when a validator is configured and its
\* Validate returns an error.
Rejects(chID, src, msgBytes, msg) ==
  msgVal /\ ~ValidatorAccepts(chID, src, msgBytes, msg)

\* (A defective variant of Decoded.)  The peer ID is parsed before the
\* validator is asked.
DecodedParsedFirst(chID, src, msgBytes, msg) ==
  LET vcalls == IF msgVal
                  THEN << [m |-> "Validate", chID |-> chID, src |-> src,
                           bytes |-> msgBytes] >>
                  ELSE << >>
      pid == PeerIDFromString(src)
  IN IF ~pid.ok
       THEN [next |-> "panic", vcalls |-> << >>, env |-> NoEnvelope]
       ELSE IF Rejects(chID, src, msgBytes, msg)
         THEN [next |-> "return", vcalls |-> vcalls, env |-> NoEnvelope]
         ELSE [next |-> "select", vcalls |-> vcalls,
               env |-> InboundEnvelope(pid.id, msg)]

\* Receive, once the bytes are decoded into msg: the validator, if any,
\* decides; then the peer ID is parsed and the Envelope built.
Decoded(chID, src, msgBytes, msg) ==
  LET vcalls == IF msgVal
                  THEN << [m |-> "Validate", chID |-> chID, src |-> src,
                           bytes |-> msgBytes] >>
                  ELSE << >>
      pid == PeerIDFromString(src)
  IN IF Rejects(chID, src, msgBytes, msg)
       THEN [next |-> "return", vcalls |-> vcalls, env |-> NoEnvelope]
       ELSE IF ~pid.ok
         THEN [next |-> "panic", vcalls |-> vcalls, env |-> NoEnvelope]
         ELSE [next |-> "select", vcalls |-> vcalls,
               env |-> InboundEnvelope(pid.id, msg)]

\* (A defective variant of ReceiveDrops.)  Receive goes on whatever the
\* state of the service.
ReceiveDropsNever(running) == FALSE

\* if !rs.IsRunning() { return }: Receive drops the call when the service
\* is not running.
ReceiveDrops(running) == ~running

\* (A defective variant of UnknownChannel.)  The result of the map lookup
\* is used without looking at ok: the nil ChannelShim is dereferenced.
UnknownChannelDereferenced(chID, src, msgBytes) ==
  [next |-> "panic", vcalls |-> << >>, env |-> NoEnvelope]

\* Receive, when rs.Channels has no entry for the channel ID: the error is
\* logged and Receive returns.
UnknownChannel(chID, src, msgBytes) ==
  [next |-> "return", vcalls |-> << >>, env |-> NoEnvelope]

\* Receive up to its select statement.
ReceiveOutcome(chID, src, msgBytes) ==
  IF ReceiveDrops(IsRunning)
    THEN [next |-> "return", vcalls |-> << >>, env |-> NoEnvelope]
  ELSE IF chID \notin DOMAIN Channels
    THEN UnknownChannel(chID, src, msgBytes)
  ELSE LET dec == Unmarshal(msgBytes, Channels[chID].messageType)
       IN IF ~dec.ok THEN DecodeFailure(chID, src, msgBytes)
                     ELSE Decoded(chID, src, msgBytes, dec.msg)

\* The validator's invocations of call n, as they enter the log.
Logged(vcalls, n) ==
  [i \in 1..Len(vcalls) |->
     [m |-> vcalls[i].m, chID |-> vcalls[i].chID, src |-> vcalls[i].src,
      bytes |-> vcalls[i].bytes, call |-> n]]

\* Receive(chID, src, msgBytes) is called and runs up to its select
\* statement.
Receive(chID, src, msgBytes) ==
  LET n == Len(calls) + 1
      out == ReceiveOutcome(chID, src, msgBytes)
      rec == NewCall("Receive", chID, src, msgBytes)
  IN /\ Len(calls) < budget
     /\ calls' = Append(calls,
                   [rec EXCEPT !.st = CASE out.next = "return" -> "returned"
                                        [] out.next = "panic" -> "panic"
                                        [] OTHER -> "active",
                               !.env = out.env])
     /\ valLog' = valLog \o Logged(out.vcalls, n)
     /\ UNCHANGED << Channels, descriptors, listed, msgVal, peers, reading, budget, inbox,
                     updates >>
     /\ UNCHANGED lifeVars
     /\ UNCHANGED proxyVars

\* Whether a receiver is blocked on a channel at the instant of a select:
\* never if the embedding reactor does not read its channels, and sometimes
\* if it does.
Readiness == IF reading THEN BOOLEAN ELSE {FALSE}

\* (A defective variant of InChOf.)  One inbound endpoint is made before
\* the loop of NewShim and given to every ChannelShim.
InChShared(chID) == CHOOSE c \in ChanIDs : \A d \in ChanIDs : c <= d

\* channelShim.InCh of the entry of rs.Channels for the channel ID: NewShim
\* makes one inbound endpoint for each entry.
InChOf(chID) == chID

\* (A defective variant of Handover.)  The newest Envelope is handed over
\* ahead of the earlier ones.
HandoverReordered(box, e) == << e >> \o box

\* What the consumer of InCh holds after one more Envelope is handed over.
Handover(box, e) == Append(box, e)

\* (A defective variant of ReceiveSelect.)  The send of Receive without a
\* default case: it waits for a receiver.
ReceiveBlockingSend(n, ready) ==
  /\ ready \in Readiness
  /\ ready
  /\ n \in 1..Len(calls)
  /\ calls[n].op = "Receive"
  /\ calls[n].st = "active"
  /\ inbox' = [inbox EXCEPT ![calls[n].chID] =
                 Append(@, [From |-> calls[n].env.From,
                            Message |-> calls[n].env.Message,
                            call |-> n])]
  /\ calls' = [calls EXCEPT ![n].st = "returned", ![n].att = @ + 1,
                            ![n].rdy = ready]
  /\ UNCHANGED << Channels, descriptors, listed, msgVal, peers, valLog, reading, budget,
                  updates >>
  /\ UNCHANGED lifeVars
  /\ UNCHANGED proxyVars

\* The select of Receive in call n: the Envelope is handed over if a
\* receiver is blocked on InCh at that instant (ready), and dropped
\* otherwise.
ReceiveSelect(n, ready) ==
  /\ ready \in Readiness
  /\ n \in 1..Len(calls)
  /\ calls[n].op = "Receive"
  /\ calls[n].st = "active"
  /\ inbox' = [inbox EXCEPT ![InChOf(calls[n].chID)] =
                 IF ready
                   THEN Handover(@, [From |-> calls[n].env.From,
                                     Message |-> calls[n].env.Message,
                                     call |-> n])
                   ELSE @]
  /\ calls' = [calls EXCEPT ![n].st = "returned", ![n].att = @ + 1,
                            ![n].rdy = ready]
  /\ UNCHANGED << Channels, descriptors, listed, msgVal, peers, valLog, reading, budget,
                  updates >>
  /\ UNCHANGED lifeVars
  /\ UNCHANGED proxyVars

\* The PeerUpdate AddPeer and RemovePeer send.
PeerUpdate(peerID, status) == [PeerID |-> peerID, Status |-> status]

\* (A defective variant of StatusOf.)  RemovePeer reports the status of
\* AddPeer.
StatusAlwaysUp(op) == "up"

StatusOf(op) == IF op = "AddPeer" THEN "up" ELSE "down"

\* AddPeer(peer) or RemovePeer(peer, reason) is called and runs up to its
\* select statement: PeerIDFromString, and panic on its error.
PeerCall(op, p) ==
  LET pid == PeerIDFromString(p)
      rec == NewCall(op, 0, p, << >>)
  IN /\ Len(calls) < budget
     /\ calls' = Append(calls,
                   [rec EXCEPT !.st = IF pid.ok THEN "active" ELSE "panic",
                               !.env = IF pid.ok
                                         THEN PeerUpdate(pid.id, StatusOf(op))
                                         ELSE NoEnvelope])
     /\ UNCHANGED << Channels, descriptors, listed, msgVal, peers, valLog, reading, budget,
                     inbox, updates >>
     /\ UNCHANGED lifeVars
     /\ UNCHANGED proxyVars

AddPeer(p) == PeerCall("AddPeer", p)

RemovePeer(p) == PeerCall("RemovePeer", p)

\* The select of AddPeer and RemovePeer in call n: the PeerUpdate is handed
\* over if a receiver is blocked on PeerUpdateCh at that instant (ready) and
\* dropped otherwise; a send on the closed channel panics.
PeerSelect(n, ready) ==
  LET hand == ready /\ ~puClosed
  IN /\ ready \in Readiness
     /\ n \in 1..Len(calls)
     /\ calls[n].op \in {"AddPeer", "RemovePeer"}
     /\ calls[n].st = "active"
     /\ updates' = IF hand
                     THEN Append(updates, [PeerID |-> calls[n].env.PeerID,
                                           Status |-> calls[n].env.Status,
                                           call |-> n])
                     ELSE updates
     /\ calls' = [calls EXCEPT ![n].st = IF puClosed THEN "panic"
                                         ELSE "returned",
                               ![n].att = @ + 1,
                               ![n].rdy = hand]
     /\ UNCHANGED << Channels, descriptors, listed, msgVal, peers, valLog, reading, budget,
                     inbox >>
     /\ UNCHANGED lifeVars
     /\ UNCHANGED proxyVars

----------------------------------------------------------------------------
HexPeers == { s \in PeerStrs : PeerIDFromString(s).ok }

Lifecycle ==
  \/ StartBegin
  \/ OnStart
  \/ StopBegin
  \/ \E c \in ChanIDs, err \in BOOLEAN : OnStopClose(c, err)
  \/ OnStopClosePeerUpdateCh

Proxies ==
  \/ \E j \in ChanIDs, e \in OutEnvelopes : ProxyTake(j, e)
  \/ \E j \in ChanIDs : ProxyExit(j)
  \/ \E j \in ChanIDs : ProxyResolve(j)
  \/ \E j \in ChanIDs : ProxySend(j)

Callers ==
  \/ \E chID \in ChIDs, src \in PeerStrs, bz \in MsgBytesSet :
       Receive(chID, src, bz)
  \/ \E n \in 1..MaxCalls, ready \in BOOLEAN : ReceiveSelect(n, ready)
  \/ \E p \in PeerStrs : AddPeer(p)
  \/ \E p \in PeerStrs : RemovePeer(p)
  \/ \E n \in 1..MaxCalls, ready \in BOOLEAN : PeerSelect(n, ready)

Environment ==
  \/ \E p \in HexPeers : PeerConnects(p)
  \/ \E p \in HexPeers : PeerDisconnects(p)

\* The whole system.
Next ==
  \/ Lifecycle
  \/ Proxies
  \/ Callers
  \/ Environment
  \/ \E order \in MapOrders : GetChannels(order)

Spec == Init /\ [][Next]_vars

\* The inbound half: the lifecycle and the legacy calls.  The calls read
\* IsRunning and PeerUpdateCh, which only the lifecycle writes, and nothing
\* the proxies write, so the calls behave here as in the whole system.
NextIn == Lifecycle \/ Callers

SpecIn == Init /\ [][NextIn]_vars

\* The outbound half: the lifecycle, the proxies and the peer registry.
NextOut == Lifecycle \/ Proxies \/ Environment

SpecOut == Init /\ [][NextOut]_vars

\* The bridge built from any list of descriptors, its lifecycle and the
\* enumeration of its channels.
NextAny == Lifecycle \/ \E order \in MapOrders : GetChannels(order)

SpecAny == InitAny /\ [][NextAny]_vars

\* Every operation of the bridge at once, on one input each: one legacy
\* call of one peer, Envelopes for that peer and one call of GetChannels.
FramePeer == CHOOSE p \in HexPeers : TRUE

FrameEnvelope ==
  [To |-> PeerIDFromString(FramePeer).id, Message |-> [type |-> "A", val |-> 5]]

NextFrame ==
  \/ Lifecycle
  \/ \E j \in ChanIDs : ProxyTake(j, FrameEnvelope)
  \/ \E j \in ChanIDs : ProxyExit(j)
  \/ \E j \in ChanIDs : ProxyResolve(j)
  \/ \E j \in ChanIDs : ProxySend(j)
  \/ \E chID \in ChanIDs : Receive(chID, FramePeer, << 8, 5 >>)
  \/ \E n \in 1..MaxCalls, ready \in BOOLEAN : ReceiveSelect(n, ready)
  \/ AddPeer(FramePeer)
  \/ RemovePeer(FramePeer)
  \/ \E n \in 1..MaxCalls, ready \in BOOLEAN : PeerSelect(n, ready)
  \/ PeerConnects(FramePeer)
  \/ PeerDisconnects(FramePeer)
  \/ \E order \in MapOrders : ~listed.called /\ GetChannels(order)

SpecFrame == InitWith(MaxLiveCalls, {TRUE}) /\ [][NextFrame]_vars

\* Scheduling: a goroutine that can take its next step takes it.  A select
\* with a default case, a close, a map lookup and Peer.Send (which gives up
\* after its timeout) all return; nothing is assumed of the callers, the
\* producers and the receivers.
CallerStep(n) ==
  \E ready \in BOOLEAN : ReceiveSelect(n, ready) \/ PeerSelect(n, ready)

OnStopStep ==
  \/ \E c \in ChanIDs, err \in BOOLEAN : OnStopClose(c, err)
  \/ OnStopClosePeerUpdateCh

ProxyStep(j) == ProxyExit(j) \/ ProxyResolve(j) \/ ProxySend(j)

LifecycleFair == WF_vars(OnStart) /\ WF_vars(OnStopStep)

SpecInFair ==
  /\ InitLive
  /\ [][NextIn]_vars
  /\ LifecycleFair
  /\ \A n \in 1..MaxCalls : WF_vars(CallerStep(n))

SpecOutFair ==
  SpecOut /\ LifecycleFair /\ \A j \in DOMAIN NewShimChannels(Descriptors) : WF_vars(ProxyStep(j))

----------------------------------------------------------------------------
(* Notions the properties share.                                           *)

CallIds == 1..Len(calls)

\* Positions of the Envelopes of call n in the inbox of channel c.
EnvelopesOf(n, c) == { i \in 1..Len(inbox[c]) : inbox[c][i].call = n }

\* Positions of the PeerUpdates of call n.
UpdatesOf(n) == { i \in 1..Len(updates) : updates[i].call = n }

\* The validator's invocations made by call n.
ValCallsOf(n) == { i \in 1..Len(valLog) : valLog[i].call = n }

\* Call a had returned (or panicked) before call b was invoked.
Precedes(a, b) == a \in calls[b].after

\* Call n is a Receive that found the bridge running and named a configured
\* channel.
RunningReceive(n) ==
  /\ calls[n].op = "Receive"
  /\ calls[n].ran
  /\ calls[n].chID \in ChanIDs

DecodedOf(n) == Unmarshal(calls[n].bytes, Channels[calls[n].chID].messageType)

\* ... whose bytes decode and pass the validator (if there is one), sent by
\* a peer whose identity parses.
AcceptedReceive(n) ==
  /\ RunningReceive(n)
  /\ DecodedOf(n).ok
  /\ msgVal => ValidatorAccepts(calls[n].chID, calls[n].src, calls[n].bytes,
                                DecodedOf(n).msg)
  /\ PeerIDFromString(calls[n].src).ok

----------------------------------------------------------------------------
\* C1: a Receive of accepted bytes on a configured channel, while running,
\* makes one delivery attempt; it hands exactly one Envelope to that
\* channel's inbound endpoint when a receiver is ready, carrying the decoded
\* message and the identity derived from the calling peer, and none when no
\* receiver is ready; it never delivers on another channel.  (The identity
\* of the calling peer is taken to parse; C18 covers the peer whose identity
\* does not.)
ClaimC1 ==
  \A n \in CallIds :
    AcceptedReceive(n) =>
      /\ \A c \in ChanIDs \ {calls[n].chID} : EnvelopesOf(n, c) = {}
      /\ calls[n].st # "panic"
      /\ calls[n].st = "active" =>
           calls[n].att = 0 /\ EnvelopesOf(n, calls[n].chID) = {}
      /\ calls[n].st = "returned" =>
           /\ calls[n].att = 1
           /\ Cardinality(EnvelopesOf(n, calls[n].chID)) =
                (IF calls[n].rdy THEN 1 ELSE 0)
           /\ \A i \in EnvelopesOf(n, calls[n].chID) :
                /\ inbox[calls[n].chID][i].Message = DecodedOf(n).msg
                /\ inbox[calls[n].chID][i].From =
                     PeerIDFromString(calls[n].src).id

\* One accepted Receive was delivered and another was dropped.
WitnessC1 ==
  \E n, m \in CallIds :
    /\ AcceptedReceive(n) /\ calls[n].st = "returned" /\ calls[n].rdy
    /\ EnvelopesOf(n, calls[n].chID) # {}
    /\ AcceptedReceive(m) /\ calls[m].st = "returned" /\ ~calls[m].rdy

\* C2: every call of Receive, AddPeer and RemovePeer completes, whatever
\* the receivers do: a call in progress finishes, having made at most one
\* handoff attempt, and exactly one if it reached its select.  A call that
\* completes by a panic is one whose peer identity does not parse or whose
\* send found PeerUpdateCh closed.
ClaimC2 ==
  /\ \A n \in 1..MaxCalls :
       (n \in CallIds /\ calls[n].st = "active")
         ~> (n \in CallIds /\ calls[n].st \in {"returned", "panic"})
  /\ [](\A n \in CallIds :
          /\ calls[n].att <= 1
          /\ calls[n].st = "panic" =>
               \/ ~PeerIDFromString(calls[n].src).ok
               \/ calls[n].op # "Receive" /\ puClosed)

\* A call has returned from its select although the embedding reactor does
\* not read.
WitnessC2 ==
  \E n \in CallIds :
    /\ ~reading
    /\ calls[n].st = "returned"
    /\ calls[n].att = 1 /\ ~calls[n].rdy

\* The Send calls made for Envelope k of outbound endpoint o.
SendsOf(o, k) ==
  { i \in 1..Len(sent) : sent[i].outCh = o /\ sent[i].env = k }

\* A proxy holds Envelope k of outbound endpoint o.
InHand(o, k) ==
  \E j \in ChanIDs : /\ proxy[j].pc \in {"resolve", "send"}
                     /\ proxy[j].outCh = o
                     /\ proxy[j].env = k

\* C3: an Envelope taken from a channel's outbound endpoint whose
\* destination is connected when the proxy resolves it (and whose message
\* encodes) gets exactly one Send, on the peer it names, with the encoding
\* of its message and the legacy ID of that channel; no Envelope gets more
\* than one Send, a Send on another peer or with another channel's ID, and
\* every Send is made for a taken Envelope.
ClaimC3 ==
  /\ \A o \in ChanIDs : \A k \in 1..Len(taken[o]) :
       LET e == taken[o][k].e
       IN /\ Cardinality(SendsOf(o, k)) <= 1
          /\ \A i \in SendsOf(o, k) :
               /\ sent[i].peer = PeerIDString(e.To)
               /\ sent[i].chID = Channels[o].Descriptor.ID
               /\ Marshal(e.Message).ok
               /\ sent[i].bz = Marshal(e.Message).bz
               /\ taken[o][k].found = "yes"
          /\ ( /\ taken[o][k].found = "yes"
               /\ Marshal(e.Message).ok
               /\ ~InHand(o, k) ) => Cardinality(SendsOf(o, k)) = 1
  /\ \A i \in 1..Len(sent) :
       sent[i].outCh \in ChanIDs /\ sent[i].env \in 1..Len(taken[sent[i].outCh])

\* A Send was made while two peers were connected.
WitnessC3 ==
  /\ Len(sent) >= 1
  /\ Cardinality(peers) = 2
  /\ \E o \in ChanIDs : \E k \in 1..Len(taken[o]) :
       SendsOf(o, k) # {} /\ ~InHand(o, k)

\* C4: an AddPeer that returned before a RemovePeer of the same peer was
\* called, each with a receiver ready, yields one Up and then one Down, both
\* with the identity derived from the peer; and in general each call yields
\* at most one PeerUpdate, with its own status and identity, and the
\* PeerUpdates of one peer are never received against the order of the
\* calls (a call that returned before another was made is not overtaken).
ClaimC4 ==
  /\ \A a, b \in CallIds :
       ( /\ calls[a].op = "AddPeer" /\ calls[b].op = "RemovePeer"
         /\ calls[a].src = calls[b].src
         /\ Precedes(a, b)
         /\ calls[a].st = "returned" /\ calls[a].rdy
         /\ calls[b].st = "returned" /\ calls[b].rdy )
       => \E i, j \in 1..Len(updates) :
            /\ i < j
            /\ UpdatesOf(a) = {i} /\ UpdatesOf(b) = {j}
            /\ updates[i].Status = "up" /\ updates[j].Status = "down"
            /\ updates[i].PeerID = PeerIDFromString(calls[a].src).id
            /\ updates[j].PeerID = updates[i].PeerID
  /\ \A n \in CallIds : Cardinality(UpdatesOf(n)) <= 1
  /\ \A i \in 1..Len(updates) :
       LET n == updates[i].call
       IN /\ n \in CallIds
          /\ calls[n].op \in {"AddPeer", "RemovePeer"}
          /\ updates[i].Status = (IF calls[n].op = "AddPeer" THEN "up" ELSE "down")
          /\ updates[i].PeerID = PeerIDFromString(calls[n].src).id
  /\ \A i, j \in 1..Len(updates) :
       (i < j /\ updates[i].PeerID = updates[j].PeerID)
         => ~Precedes(updates[j].call, updates[i].call)

\* AddPeer then RemovePeer of one peer, both handed over.
WitnessC4 ==
  \E a, b \in CallIds :
    /\ calls[a].op = "AddPeer" /\ calls[b].op = "RemovePeer"
    /\ calls[a].src = calls[b].src
    /\ Precedes(a, b)
    /\ calls[a].st = "returned" /\ calls[a].rdy
    /\ calls[b].st = "returned" /\ calls[b].rdy
    /\ Len(updates) = 2

\* C5 as stated: on each channel the Envelopes are delivered in the order
\* in which their Receive calls were invoked, whoever the callers are.
OriginalC5 ==
  \A c \in ChanIDs : \A i, j \in 1..Len(inbox[c]) :
    i < j => inbox[c][i].call < inbox[c][j].call

\* C5, amended: on each channel every Receive delivers at most one Envelope
\* and a Receive that returned before another was invoked is never
\* delivered after it; Receive calls that overlap may be delivered in
\* either order.
ClaimC5 ==
  \A c \in ChanIDs :
    /\ \A i \in 1..Len(inbox[c]) :
         /\ inbox[c][i].call \in CallIds
         /\ calls[inbox[c][i].call].op = "Receive"
         /\ calls[inbox[c][i].call].chID = c
         /\ EnvelopesOf(inbox[c][i].call, c) = {i}
    /\ \A i, j \in 1..Len(inbox[c]) :
         i < j => ~Precedes(inbox[c][j].call, inbox[c][i].call)

\* Two Receive calls, one after the other, both delivered on one channel.
WitnessC5 ==
  \E c \in ChanIDs :
    /\ Len(inbox[c]) = 2
    /\ Precedes(inbox[c][1].call, inbox[c][2].call)

\* C6: once OnStop has returned, PeerUpdateCh is closed and Close has been
\* called on the handle of every ChannelShim, whichever of these calls
\* returned an error; OnStop does not panic, and an OnStop that has begun
\* returns.
ClaimC6 ==
  /\ [](stopPc = "done" => puClosed /\ visited = ChanIDs)
  /\ [](stopPc # "panic")
  /\ (stopPc = "onstop") ~> (stopPc = "done")

\* OnStop has returned although every Close returned an error.
WitnessC6 ==
  /\ stopPc = "done"
  /\ closeErrs = ChanIDs
  /\ visited = ChanIDs
  /\ puClosed

\* C7: PeerUpdateCh is closed once, by the last step of OnStop, after Close
\* has been called on every ChannelShim's handle (so that every outbound
\* endpoint is closed); once closed it stays closed.
ClaimC7 ==
  /\ [][puClosed' # puClosed =>
          /\ ~puClosed /\ puClosed'
          /\ stopPc = "onstop" /\ stopPc' = "done"
          /\ visited = ChanIDs
          /\ \A c \in ChanIDs : outClosed[c]]_vars
  /\ [][puCloses' # puCloses => puClosed' # puClosed]_vars
  /\ [](puCloses <= 1 /\ (puClosed <=> puCloses = 1))

\* OnStop has closed PeerUpdateCh.
WitnessC7 == puCloses = 1 /\ puClosed /\ stopPc = "done" /\ closeErrs # {}

\* C8: a proxy whose outbound endpoint has been closed terminates: it
\* leaves its loop, or, if the Envelope it holds cannot be proxied, panics;
\* and an OnStop that has begun returns, whatever the proxies are doing.
ClaimC8 ==
  /\ \A j \in DOMAIN NewShimChannels(Descriptors) :
       (proxy[j].pc # "none" /\ outClosed[proxy[j].outCh])
         ~> (proxy[j].pc \in {"exited", "panic"})
  /\ (stopPc = "onstop") ~> (stopPc = "done")
  /\ [](\A j \in ChanIDs : proxy[j].pc = "exited" => outClosed[proxy[j].outCh])

\* A proxy that was sending when its endpoint was closed has left its loop.
WitnessC8 ==
  \E j \in ChanIDs :
    /\ proxy[j].pc = "exited"
    /\ \E i \in 1..Len(sent) : sent[i].task = j /\ sent[i].closed
    /\ stopPc = "done"

\* C9: a Receive on a configured channel, while running and with a
\* validator, whose bytes do not decode calls OnUnmarshalFailure once, with
\* its own channel ID, peer and bytes, calls nothing else of the validator,
\* delivers no Envelope on any channel and returns.
ClaimC9 ==
  \A n \in CallIds :
    (RunningReceive(n) /\ ~DecodedOf(n).ok /\ msgVal) =>
      /\ Cardinality(ValCallsOf(n)) = 1
      /\ \A i \in ValCallsOf(n) :
           /\ valLog[i].m = "OnUnmarshalFailure"
           /\ valLog[i].chID = calls[n].chID
           /\ valLog[i].src = calls[n].src
           /\ valLog[i].bytes = calls[n].bytes
      /\ \A c \in ChanIDs : EnvelopesOf(n, c) = {}
      /\ calls[n].st = "returned"
      /\ calls[n].att = 0

\* Undecodable bytes from a peer whose identity does not parse.
WitnessC9 ==
  \E n \in CallIds :
    /\ RunningReceive(n) /\ ~DecodedOf(n).ok /\ msgVal
    /\ calls[n].src = "zz"
    /\ calls[n].st = "returned"
    /\ ValCallsOf(n) # {}

\* C10: a Receive, while running, whose bytes decode and whose message the
\* validator rejects calls Validate once and OnUnmarshalFailure never,
\* delivers no Envelope on any channel and returns; the calls made after
\* it are processed as usual (C1 holds of them).
ClaimC10 ==
  \A n \in CallIds :
    ( /\ RunningReceive(n) /\ DecodedOf(n).ok /\ msgVal
      /\ ~ValidatorAccepts(calls[n].chID, calls[n].src, calls[n].bytes,
                           DecodedOf(n).msg) ) =>
      /\ Cardinality(ValCallsOf(n)) = 1
      /\ \A i \in ValCallsOf(n) :
           /\ valLog[i].m = "Validate"
           /\ valLog[i].chID = calls[n].chID
           /\ valLog[i].src = calls[n].src
           /\ valLog[i].bytes = calls[n].bytes
      /\ \A c \in ChanIDs : EnvelopesOf(n, c) = {}
      /\ calls[n].st = "returned"
      /\ calls[n].att = 0
      /\ \A m \in CallIds :
           (Precedes(n, m) /\ AcceptedReceive(m) /\ calls[m].st = "returned"
              /\ calls[m].rdy)
             => Cardinality(EnvelopesOf(m, calls[m].chID)) = 1

\* A rejected Receive, and after it a Receive that was delivered.
WitnessC10 ==
  \E n, m \in CallIds :
    /\ RunningReceive(n) /\ DecodedOf(n).ok /\ msgVal
    /\ ~ValidatorAccepts(calls[n].chID, calls[n].src, calls[n].bytes,
                         DecodedOf(n).msg)
    /\ calls[n].st = "returned"
    /\ Precedes(n, m)
    /\ AcceptedReceive(m)
    /\ EnvelopesOf(m, calls[m].chID) # {}

\* C11: a Receive that names a channel ID with no entry in rs.Channels
\* returns without a delivery attempt: it hands no Envelope to any inbound
\* endpoint, calls neither OnUnmarshalFailure nor Validate, and does not
\* panic, whatever its bytes and its peer, running or not.
ClaimC11 ==
  \A n \in CallIds :
    (calls[n].op = "Receive" /\ calls[n].chID \notin ChanIDs) =>
      /\ calls[n].st = "returned"
      /\ calls[n].att = 0
      /\ ValCallsOf(n) = {}
      /\ \A c \in ChanIDs : EnvelopesOf(n, c) = {}

\* While running, with a validator: undecodable bytes on an unknown channel
\* from a peer whose identity does not parse, and rejected bytes on an
\* unknown channel.
WitnessC11 ==
  \E n, m \in CallIds :
    /\ msgVal
    /\ calls[n].op = "Receive" /\ calls[n].ran /\ calls[n].chID \notin ChanIDs
    /\ calls[n].src = "zz" /\ ~Unmarshal(calls[n].bytes, "A").ok
    /\ calls[m].op = "Receive" /\ calls[m].ran /\ calls[m].chID \notin ChanIDs
    /\ Unmarshal(calls[m].bytes, "A").ok
    /\ ~ValidatorAccepts(calls[m].chID, calls[m].src, calls[m].bytes,
                         Unmarshal(calls[m].bytes, "A").msg)

\* C12: a Receive that finds the service not running (not yet started, or
\* stopped) returns without a delivery attempt: it hands no Envelope to any
\* inbound endpoint, calls nothing of the validator and does not panic,
\* whatever its channel ID, bytes and peer.
ClaimC12 ==
  \A n \in CallIds :
    (calls[n].op = "Receive" /\ ~calls[n].ran) =>
      /\ calls[n].st = "returned"
      /\ calls[n].att = 0
      /\ ValCallsOf(n) = {}
      /\ \A c \in ChanIDs : EnvelopesOf(n, c) = {}

\* Two Receive calls that found the service not running, the service being
\* stopped by now, with a validator: one of accepted bytes on a configured
\* channel from a peer whose identity does not parse, one of undecodable
\* bytes.
WitnessC12 ==
  \E n, m \in CallIds :
    /\ msgVal /\ stopped /\ n < m
    /\ calls[n].op = "Receive" /\ ~calls[n].ran
    /\ calls[n].chID \in ChanIDs /\ calls[n].src = "zz"
    /\ DecodedOf(n).ok
    /\ ValidatorAccepts(calls[n].chID, calls[n].src, calls[n].bytes,
                        DecodedOf(n).msg)
    /\ calls[m].op = "Receive" /\ ~calls[m].ran
    /\ calls[m].chID \in ChanIDs /\ ~DecodedOf(m).ok

\* C13: OnStart returns nil (it ends in "done", never in a failure); when
\* it finds the service running it starts one proxy goroutine for every
\* entry of rs.Channels, each listening on the outbound endpoint of its
\* entry, and when it finds the service not running it starts none; no
\* goroutine exists before OnStart runs (NewShim starts none), and nothing
\* but OnStart starts one.
ClaimC13 ==
  /\ [](startPc \in {"idle", "onstart", "done"})
  /\ [](startPc \in {"idle", "onstart"} =>
          \A c \in ChanIDs : spawned[c] = 0 /\ proxy[c].pc = "none")
  /\ [][(startPc = "onstart" /\ startPc' = "done") =>
          IF IsRunning
            THEN \A c \in ChanIDs : /\ spawned'[c] = spawned[c] + 1
                                    /\ proxy'[c].pc = "wait"
                                    /\ proxy'[c].outCh = c
            ELSE spawned' = spawned /\ proxy' = proxy]_vars
  /\ [][spawned' # spawned => (startPc = "onstart" /\ startPc' = "done")]_vars

\* OnStart found the service running and has returned: every channel has
\* its one proxy.
WitnessC13 ==
  /\ startPc = "done"
  /\ Cardinality(ChanIDs) = 2
  /\ \A c \in ChanIDs : spawned[c] = 1 /\ proxy[c].pc # "none"

\* The proxy has looked up the destination of Envelope k of outbound
\* endpoint o and found no connected peer, or could not encode its message.
Unproxiable(o, k) ==
  \/ taken[o][k].found = "no"
  \/ taken[o][k].found = "yes" /\ ~Marshal(taken[o][k].e.Message).ok

\* C14: when the destination of an Envelope a proxy took is not a connected
\* peer at the proxy's lookup, or its message does not encode, the proxy
\* panics holding that Envelope and no Send is ever made for it, on any
\* peer.
ClaimC14 ==
  \A o \in ChanIDs : \A k \in 1..Len(taken[o]) :
    Unproxiable(o, k) =>
      /\ SendsOf(o, k) = {}
      /\ proxy[taken[o][k].task].pc = "panic"
      /\ proxy[taken[o][k].task].outCh = o
      /\ proxy[taken[o][k].task].env = k

\* A proxy sent one Envelope to a peer and panicked on the next Envelope
\* for the same peer, which had been disconnected in between.
WitnessC14 ==
  \E o \in ChanIDs : \E k \in 1..Len(taken[o]) :
    /\ taken[o][k].found = "no"
    /\ proxy[taken[o][k].task].pc = "panic"
    /\ \E i \in 1..Len(sent) :
         sent[i].peer = PeerIDString(taken[o][k].e.To) /\ sent[i].outCh = o

\* The descriptors NewShim was handed, and those GetChannels returned, as
\* sets.
ConfiguredSet == { descriptors[i].Descriptor : i \in DOMAIN descriptors }

ListedSet == { listed.ds[i] : i \in DOMAIN listed.ds }

\* No two of the descriptors NewShim was handed have the same channel ID.
DistinctIDs ==
  \A i, k \in DOMAIN descriptors :
    i # k => descriptors[i].Descriptor.ID # descriptors[k].Descriptor.ID

\* C15 as stated: whatever list of descriptors NewShim was handed,
\* GetChannels returns exactly the configured descriptors, as a set.
OriginalC15 == listed.called => ListedSet = ConfiguredSet

\* C15, amended: GetChannels, called before the start, while running or
\* after the stop, returns one descriptor per entry of rs.Channels; when the
\* descriptors NewShim was handed have pairwise distinct channel IDs these
\* are exactly the configured descriptors, as a set; of configured
\* descriptors that share a channel ID it returns the last one only.
ClaimC15 ==
  listed.called =>
    /\ Len(listed.ds) = Cardinality(ChanIDs)
    /\ DistinctIDs => /\ ListedSet = ConfiguredSet
                       /\ Len(listed.ds) = Len(descriptors)
    /\ ListedSet =
         { descriptors[i].Descriptor : i \in
             { i \in DOMAIN descriptors :
                 \A k \in DOMAIN descriptors :
                   descriptors[k].Descriptor.ID = descriptors[i].Descriptor.ID
                     => k <= i } }

\* GetChannels, called after the stop on a bridge of two channels, has
\* returned the two descriptors in the reverse of the configured order.
WitnessC15 ==
  /\ listed.called /\ ~listed.ran /\ stopPc = "done"
  /\ DistinctIDs /\ Len(descriptors) = 2 /\ Len(listed.ds) = 2
  /\ listed.ds[1] = descriptors[2].Descriptor
  /\ listed.ds[2] = descriptors[1].Descriptor

\* C16: what a Receive does is decided on its own channel.  It hands an
\* Envelope to the inbound endpoint of its own channel exactly when its
\* bytes are accepted and a receiver is ready on that endpoint at its
\* select, whatever calls are in progress or were made on other channels
\* and whatever their receivers do; it never hands one to the endpoint of
\* another channel; and the step that completes it changes neither the
\* inbound endpoint of another channel nor the progress of another call.
\* (Two runs that differ only in the traffic and the readiness on another
\* channel give the call the same inputs and the same readiness, hence the
\* same outcome.)
ClaimC16 ==
  /\ [](\A n \in CallIds :
          calls[n].op = "Receive" =>
            /\ \A c \in ChanIDs \ {calls[n].chID} : EnvelopesOf(n, c) = {}
            /\ calls[n].st = "returned" =>
                 ( (\E c \in ChanIDs : EnvelopesOf(n, c) # {})
                     <=> (AcceptedReceive(n) /\ calls[n].rdy) ))
  /\ [][\A n \in CallIds :
          ( /\ calls[n].op = "Receive"
            /\ calls[n].st = "active"
            /\ calls'[n].st # "active" ) =>
            /\ \A c \in ChanIDs \ {calls[n].chID} : inbox'[c] = inbox[c]
            /\ \A m \in CallIds \ {n} : calls'[m] = calls[m]
            /\ (inbox'[calls[n].chID] # inbox[calls[n].chID])
                 <=> calls'[n].rdy]_vars

\* Two Receive calls in progress at the same time on different channels:
\* the one was dropped and the other delivered.
WitnessC16 ==
  \E n, m \in CallIds :
    /\ AcceptedReceive(n) /\ AcceptedReceive(m)
    /\ calls[n].chID # calls[m].chID
    /\ ~Precedes(n, m) /\ ~Precedes(m, n)
    /\ calls[n].st = "returned" /\ ~calls[n].rdy
    /\ calls[m].st = "returned" /\ calls[m].rdy
    /\ EnvelopesOf(n, calls[n].chID) = {}
    /\ EnvelopesOf(m, calls[m].chID) # {}

\* C17: rs.Channels is the map NewShim built, in every state: no step of
\* OnStart, of a proxy, of Receive, AddPeer, RemovePeer, GetChannels or
\* OnStop adds, removes or rebinds an entry, so every channel ID keeps its
\* one ChannelShim, with its descriptor and its endpoints.
ClaimC17 ==
  /\ [][Channels' = Channels]_vars
  /\ [](Channels = NewShimChannels(descriptors))
  /\ [](\A c \in ChanIDs : Channels[c].Descriptor.ID = c)

\* Every operation has run: the proxies were started and have sent, a
\* legacy call has returned, GetChannels was called and OnStop has
\* returned.
WitnessC17 ==
  /\ startPc = "done" /\ stopPc = "done"
  /\ \A c \in ChanIDs : spawned[c] = 1
  /\ Len(sent) >= 1
  /\ \E n \in CallIds : calls[n].st = "returned" /\ calls[n].att = 1
  /\ listed.called

\* C18: Receive checks that the service runs, looks the channel up,
\* decodes, validates and only then parses the peer's identity.  So a
\* Receive from a peer whose identity does not parse panics exactly when
\* the service runs, the channel is configured, the bytes decode and the
\* validator (if any) accepts, and Validate has then been called; in every
\* other case it returns, having made the validator calls of its case; in
\* either case it makes no delivery attempt and no Envelope of it is
\* handed over.  No other Receive panics.
ClaimC18 ==
  \A n \in CallIds :
    calls[n].op = "Receive" =>
      /\ calls[n].st = "panic" => ~PeerIDFromString(calls[n].src).ok
      /\ ~PeerIDFromString(calls[n].src).ok =>
           LET accepted ==
                 /\ RunningReceive(n)
                 /\ DecodedOf(n).ok
                 /\ msgVal => ValidatorAccepts(calls[n].chID, calls[n].src,
                                               calls[n].bytes, DecodedOf(n).msg)
           IN /\ calls[n].st = (IF accepted THEN "panic" ELSE "returned")
              /\ calls[n].att = 0
              /\ \A c \in ChanIDs : EnvelopesOf(n, c) = {}
              /\ Cardinality(ValCallsOf(n)) =
                   (IF RunningReceive(n) /\ msgVal THEN 1 ELSE 0)
              /\ \A i \in ValCallsOf(n) :
                   valLog[i].m = (IF DecodedOf(n).ok THEN "Validate"
                                                     ELSE "OnUnmarshalFailure")

\* With a validator, a peer whose identity does not parse had one Receive
\* rejected, which returned, and one accepted, which panicked.
WitnessC18 ==
  \E n, m \in CallIds :
    /\ msgVal
    /\ calls[n].op = "Receive" /\ calls[n].src = "zz"
    /\ calls[n].st = "panic" /\ ValCallsOf(n) # {}
    /\ calls[m].op = "Receive" /\ calls[m].src = "zz"
    /\ RunningReceive(m) /\ DecodedOf(m).ok
    /\ ~ValidatorAccepts(calls[m].chID, calls[m].src, calls[m].bytes,
                         DecodedOf(m).msg)
    /\ calls[m].st = "returned"

\* C19 as stated: an AddPeer or RemovePeer call for a peer whose identity
\* parses returns normally, having handed over or dropped its PeerUpdate,
\* however it is interleaved with OnStop: its select never finds
\* PeerUpdateCh closed, so it never panics.
OriginalC19 ==
  \A n \in CallIds :
    (calls[n].op \in {"AddPeer", "RemovePeer"} /\ PeerIDFromString(calls[n].src).ok)
      => calls[n].st # "panic"

\* The Envelopes of outbound endpoint o a proxy holds.
InFlight(o) == { k \in 1..Len(taken[o]) : InHand(o, k) }

\* C20: for each channel the Send calls are made in the order in which
\* the Envelopes were taken from its outbound endpoint; at most one
\* Envelope of the channel is held by the proxy, the last one taken; every
\* Envelope taken before it has had its Send; and an Envelope is taken (the
\* producer's handoff completes) only while none is held, so not before
\* the Send of the previous one has returned.
ClaimC20 ==
  /\ [](\A i, k \in 1..Len(sent) :
          (i < k /\ sent[i].outCh = sent[k].outCh) => sent[i].env < sent[k].env)
  /\ [](\A o \in ChanIDs :
          /\ Cardinality(InFlight(o)) <= 1
          /\ \A k \in InFlight(o) : k = Len(taken[o])
          /\ \A k \in 1..(Len(taken[o]) - 1) : Cardinality(SendsOf(o, k)) = 1)
  /\ [][\A o \in ChanIDs :
          taken'[o] # taken[o] /\ Len(taken'[o]) > Len(taken[o]) =>
            /\ InFlight(o) = {}
            /\ Len(taken'[o]) = Len(taken[o]) + 1
            /\ \A k \in 1..Len(taken[o]) : Cardinality(SendsOf(o, k)) = 1]_vars

\* Two Envelopes were taken from one outbound endpoint and sent, the first
\* before the second.
WitnessC20 ==
  \E o \in ChanIDs :
    /\ Len(taken[o]) = 2
    /\ \E i, k \in 1..Len(sent) :
         /\ i < k
         /\ sent[i].outCh = o /\ sent[i].env = 1
         /\ sent[k].outCh = o /\ sent[k].env = 2

====
